---- MODULE Spec2Model ----
(***************************************************************************)
(* Model of api/package.py: the in-memory TTL cache (_cache,               *)
(* get_from_cache, set_cache), the upstream fetchers (fetch_registry,      *)
(* fetch_downloads) and the three caching endpoints (get_package,          *)
(* get_user_packages, package_downloads_chart) running as coroutines on    *)
(* one asyncio event loop.                                                 *)
(*                                                                         *)
(* A coroutine runs without interruption from one await to the next; the   *)
(* variable cur names the coroutine that holds the event loop (0: none).   *)
(* The cache functions are modelled statement by statement, so that their  *)
(* atomicity is a property of the model and not an assumption.             *)
(*                                                                         *)
(* Optional values (None, a missing dict key) are sequences of length 0    *)
(* or 1: <<>> is None / absent, <<x>> is x.                                *)
(***************************************************************************)
EXTENDS Integers, Sequences, FiniteSets, TLC

VARIABLES
    now,        \* time.time(), in whole seconds
    ttl,        \* CACHE_TTL, read once at import
    cache,      \* _cache: key -> <<>> (no entry) or <<[ts, value]>>
    cur,        \* the coroutine holding the event loop, 0 when it is free
    pc,         \* pc[h]: position of handler h in its endpoint
    req,        \* req[h]: the parameters of the request h is serving
    key,        \* key[h]: local variable key
    ent,        \* ent[h]: local variable ent of get_from_cache
    cached,     \* cached[h]: local variable cached (return of get_from_cache)
    reg,        \* reg[h]: local variable reg of get_package
    result,     \* result[h]: the shaped value about to be stored
    outcome,    \* outcome[h]: how the request ended
    response,   \* response[h]: the JSON content returned
    calls,      \* history: upstream calls issued by h's current request
    statuses,   \* history: the statuses those calls came back with
    fetches,    \* history: upstream calls issued per cache key
    sets,       \* history: number of set_cache calls per key
    lastSet,    \* history: the last set_cache on each key, <<[ts, value,
                \* issued]>>, issued being when its data was requested
    setsAtGet,  \* history: sets[key[h]] when h's get_from_cache returned
    issuedAt,   \* history: when h's request issued its first upstream call
    wrote,      \* history: the set_cache calls made by h's current request
    nreq        \* number of requests received so far

vars == <<now, ttl, cache, cur, pc, req, key, ent, cached, reg, result,
          outcome, response, calls, statuses, fetches, sets, lastSet,
          setsAtGet, issuedAt, wrote, nreq>>

----------------------------------------------------------------------------
(* Bounds of the model *)

NumHandlers == 2
MaxRequests == 2
MaxTime == 1
MaxTTL == 1
MaxVersions == 21

Handlers == 1..NumHandlers

----------------------------------------------------------------------------
(* Requests and cache keys *)

PkgRequests ==
    [type : {"pkg"}, package_name : {"a"},
     include_versions : BOOLEAN, include_readme : {FALSE}]

UserRequests ==
    [type : {"user"}, username : {"u"}, size : {10}, from_ : {0}]

ChartRequests ==
    {[type |-> "chart", package |-> "a", range_ |-> "b:c"],
     [type |-> "chart", package |-> "a:b", range_ |-> "c"]}

Requests == PkgRequests \cup UserRequests \cup ChartRequests

\* int(include_versions) formatted into the f-string
BoolDigit(b) == IF b THEN "1" ELSE "0"

PkgKey(r) ==
    "pkg:" \o r.package_name \o ":" \o BoolDigit(r.include_versions)
           \o ":" \o BoolDigit(r.include_readme)

UserKey(r) ==
    "user:" \o r.username \o ":" \o ToString(r.size) \o ":" \o ToString(r.from_)

ChartKey(r) ==
    "chart:" \o r.package \o ":" \o r.range_

Key(r) ==
    CASE r.type = "pkg"   -> PkgKey(r)
      [] r.type = "user"  -> UserKey(r)
      [] r.type = "chart" -> ChartKey(r)

Keys == {Key(r) : r \in Requests}

NoRequest == [type |-> "none"]

----------------------------------------------------------------------------
(* Upstream responses *)

\* httpx raised instead of returning a response (connect error, timeout)
NoResponse == 0

Statuses == {200, 404, 500, NoResponse}

\* r.raise_for_status()
RaiseForStatus(s) == s \notin 200..299

\* what `await client.get(url)` plus the status checks of each call site
\* leave the caller with
\* variant: fetch_registry without its 404 test
FetchRegistryNo404(s) ==
    IF s = NoResponse THEN "raise"
    ELSE IF RaiseForStatus(s) THEN "raise"
    ELSE "json"

\* variant: fetch_registry without r.raise_for_status()
FetchRegistryNoRaise(s) ==
    IF s = NoResponse THEN "raise"
    ELSE IF s = 404 THEN "http404"
    ELSE "json"

FetchRegistry(s) ==
    IF s = NoResponse THEN "raise"
    ELSE IF s = 404 THEN "http404"
    ELSE IF RaiseForStatus(s) THEN "raise"
    ELSE "json"

\* variant: fetch_downloads without its 404 test
FetchDownloadsNo404(s) ==
    IF s = NoResponse THEN "raise"
    ELSE IF RaiseForStatus(s) THEN "raise"
    ELSE "json"

FetchDownloads(s) ==
    IF s = NoResponse THEN "raise"
    ELSE IF s = 404 THEN "empty"
    ELSE IF RaiseForStatus(s) THEN "raise"
    ELSE "json"

SearchByMaintainer(s) ==
    IF s = NoResponse THEN "raise"
    ELSE IF s # 200 THEN "http502"
    ELSE "json"

FetchRange(s) ==
    IF s = NoResponse THEN "raise"
    ELSE IF s = 404 THEN "http404"
    ELSE IF RaiseForStatus(s) THEN "raise"
    ELSE "json"

\* keys of the upstream "versions" mapping, in upstream (insertion) order
\* (neither ascending nor descending: 3, 4, ..., n, 1, 2)
UpstreamKeys(n) == [i \in 1..n |-> ((i + 1) % n) + 1]

VERSIONS_KEPT == 20

VersionCounts == {3} \cup (VERSIONS_KEPT .. MaxVersions)

VersionLists == {UpstreamKeys(n) : n \in VersionCounts}

\* registry documents: dist-tags.latest (optional), the versions mapping
\* (its keys, see Manifest for its values), readme. The documents are: the
\* long version lists with latest = 1, and the short list with no
\* dist-tags.latest and with a latest that has no manifest.
RegPayloads ==
    [name : {<<"a">>}, latest : {<<1>>},
     versions : {v \in VersionLists : Len(v) >= VERSIONS_KEPT},
     readme : {<<"doc">>}]
    \cup
    [name : {<<"a">>}, latest : {<<>>, <<MaxVersions + 1>>},
     versions : {UpstreamKeys(3)}, readme : {<<"doc">>}]

\* the {} that fetch_downloads returns on 404
EmptyDict == [empty |-> TRUE, downloads |-> <<>>]

DlPayloads == {[empty |-> FALSE, downloads |-> <<5>>]}

SearchPayloads ==
    {[total |-> <<1>>, objects |-> <<[name |-> <<"p">>, version |-> <<"1.0">>]>>]}

RangePayloads ==
    {[downloads |-> <<>>],
     [downloads |-> <<[day |-> "d1", downloads |-> 7]>>]}

----------------------------------------------------------------------------
(* Response shaping *)

InSeq(x, s) == \E i \in 1..Len(s) : s[i] = x

\* variant: versions[:20]
FirstVersions(versions) ==
    SubSeq(versions, 1, IF Len(versions) < VERSIONS_KEPT THEN Len(versions)
                        ELSE VERSIONS_KEPT)

\* versions[-20:]
LastVersions(versions) ==
    LET start == IF Len(versions) - VERSIONS_KEPT < 0 THEN 0
                 ELSE Len(versions) - VERSIONS_KEPT
    IN  SubSeq(versions, start + 1, Len(versions))

\* the manifest stored under key v of the versions mapping (a mapping such
\* as dependencies is the set of its keys), and the manifest {}
Manifest(v) ==
    [version |-> <<v>>, license |-> <<"MIT">>, dependencies |-> <<{"dep"}>>,
     dist |-> <<{"tarball"}>>]

EmptyManifest ==
    [version |-> <<>>, license |-> <<>>, dependencies |-> <<>>, dist |-> <<>>]

\* the "latest_meta" dict: .get("version"), .get("license"),
\* .get("dependencies", {}), .get("dist", {})
ProjectMeta(m) ==
    [version |-> m.version,
     license |-> m.license,
     dependencies |-> IF m.dependencies # <<>> THEN m.dependencies[1] ELSE {},
     dist |-> IF m.dist # <<>> THEN m.dist[1] ELSE {}]

\* variant: without a usable latest, the newest version's manifest is taken
LatestMetaNewest(rg) ==
    IF rg.latest # <<>> /\ InSeq(rg.latest[1], rg.versions)
    THEN ProjectMeta(Manifest(rg.latest[1]))
    ELSE ProjectMeta(Manifest(rg.versions[Len(rg.versions)]))

\* reg.get("versions", {}).get(latest, {}) if latest else {}, projected
LatestMeta(rg) ==
    IF rg.latest # <<>> /\ InSeq(rg.latest[1], rg.versions)
    THEN ProjectMeta(Manifest(rg.latest[1]))
    ELSE ProjectMeta(EmptyManifest)

\* downloads.get("downloads") if downloads else None
DownloadsLastWeek(dl) == IF ~dl.empty THEN dl.downloads ELSE <<>>

ShapePackage(r, rg, dl) ==
    [t |-> "dict",
     name |-> rg.name,
     latest |-> rg.latest,
     latest_meta |-> LatestMeta(rg),
     downloads_last_week |-> DownloadsLastWeek(dl),
     versions |-> IF r.include_versions THEN <<LastVersions(rg.versions)>>
                  ELSE <<>>,
     readme |-> IF r.include_readme THEN rg.readme ELSE <<>>]

ShapeUser(r, data) ==
    [t |-> "dict",
     username |-> r.username,
     count |-> IF data.total # <<>> THEN data.total[1] ELSE 0,
     packages |-> [i \in 1..Len(data.objects) |->
                     [name |-> data.objects[i].name,
                      version |-> data.objects[i].version]]]

ShapeChart(data) ==
    [t |-> "list",
     items |-> [i \in 1..Len(data.downloads) |->
                  [date |-> data.downloads[i].day,
                   downloads |-> data.downloads[i].downloads]]]

\* Python truth value of a cached response: a list is true when non-empty;
\* the dicts built by get_package and get_user_packages always have keys
Truthy(v) == IF v.t = "list" THEN v.items # <<>> ELSE TRUE

----------------------------------------------------------------------------
(* The cache store *)

\* variant: an entry lives one second longer than CACHE_TTL
ExpiredLate(t, ts, limit) == t - ts > limit + 1

\* variant: the entry already expires at exactly ts + CACHE_TTL
ExpiredAtLimit(t, ts, limit) == t - ts >= limit

\* time.time() - ent["ts"] > CACHE_TTL
Expired(t, ts, limit) == t - ts > limit

\* variant: the entry is not stamped with the current time
NewEntryEpoch(t, val) == [ts |-> 0, value |-> val]

\* {"ts": time.time(), "value": val}
NewEntry(t, val) == [ts |-> t, value |-> val]

----------------------------------------------------------------------------
(* Initial state: the module has just been imported *)

Init ==
    /\ now = 0
    /\ ttl \in 0..MaxTTL
    /\ cache = [k \in Keys |-> <<>>]
    /\ cur = 0
    /\ pc = [h \in Handlers |-> "idle"]
    /\ req = [h \in Handlers |-> NoRequest]
    /\ key = [h \in Handlers |-> ""]
    /\ ent = [h \in Handlers |-> <<>>]
    /\ cached = [h \in Handlers |-> <<>>]
    /\ reg = [h \in Handlers |-> <<>>]
    /\ result = [h \in Handlers |-> <<>>]
    /\ outcome = [h \in Handlers |-> "none"]
    /\ response = [h \in Handlers |-> <<>>]
    /\ calls = [h \in Handlers |-> <<>>]
    /\ statuses = [h \in Handlers |-> <<>>]
    /\ fetches = [k \in Keys |-> 0]
    /\ sets = [k \in Keys |-> 0]
    /\ lastSet = [k \in Keys |-> <<>>]
    /\ setsAtGet = [h \in Handlers |-> 0]
    /\ issuedAt = [h \in Handlers |-> 0]
    /\ wrote = [h \in Handlers |-> <<>>]
    /\ nreq = 0

----------------------------------------------------------------------------
(* Steps of a request handler *)

\* the first await of each endpoint after a cache miss
FirstCall(type) ==
    CASE type = "pkg"   -> "registry"
      [] type = "user"  -> "search"
      [] type = "chart" -> "range"

\* A request arrives: the endpoint coroutine starts and builds its key.
Begin(h, r) ==
    /\ cur = 0
    /\ pc[h] \in {"idle", "done"}
    /\ nreq < MaxRequests
    /\ nreq' = nreq + 1
    /\ cur' = h
    /\ req' = [req EXCEPT ![h] = r]
    /\ key' = [key EXCEPT ![h] = Key(r)]
    /\ pc' = [pc EXCEPT ![h] = "get_lookup"]
    /\ ent' = [ent EXCEPT ![h] = <<>>]
    /\ cached' = [cached EXCEPT ![h] = <<>>]
    /\ reg' = [reg EXCEPT ![h] = <<>>]
    /\ result' = [result EXCEPT ![h] = <<>>]
    /\ outcome' = [outcome EXCEPT ![h] = "none"]
    /\ response' = [response EXCEPT ![h] = <<>>]
    /\ calls' = [calls EXCEPT ![h] = <<>>]
    /\ statuses' = [statuses EXCEPT ![h] = <<>>]
    /\ setsAtGet' = [setsAtGet EXCEPT ![h] = 0]
    /\ issuedAt' = [issuedAt EXCEPT ![h] = 0]
    /\ wrote' = [wrote EXCEPT ![h] = <<>>]
    /\ UNCHANGED <<now, ttl, cache, fetches, sets, lastSet>>

\* variant: the lookup suspends the coroutine (an awaited store)
GetLookupYield(h) ==
    /\ cur = h
    /\ pc[h] = "get_lookup"
    /\ ent' = [ent EXCEPT ![h] = cache[key[h]]]
    /\ pc' = [pc EXCEPT ![h] = "get_check"]
    /\ cur' = 0
    /\ UNCHANGED <<now, ttl, cache, req, key, cached, reg, result,
                   outcome, response, calls, statuses, fetches, sets,
                   lastSet, nreq, setsAtGet, issuedAt, wrote>>

\* get_from_cache: ent = _cache.get(key)
GetLookup(h) ==
    /\ cur = h
    /\ pc[h] = "get_lookup"
    /\ ent' = [ent EXCEPT ![h] = cache[key[h]]]
    /\ pc' = [pc EXCEPT ![h] = "get_check"]
    /\ UNCHANGED <<now, ttl, cache, cur, req, key, cached, reg, result,
                   outcome, response, calls, statuses, fetches, sets,
                   lastSet, nreq,
                   setsAtGet, issuedAt, wrote>>

\* variant: a hit renews the entry's timestamp (sliding expiry)
GetCheckTouch(h) ==
    /\ cur = h
    /\ pc[h] = "get_check"
    /\ IF ent[h] = <<>>
       THEN /\ cached' = [cached EXCEPT ![h] = <<>>]
            /\ UNCHANGED cache
       ELSE IF Expired(now, ent[h][1].ts, ttl)
       THEN /\ cache' = [cache EXCEPT ![key[h]] = <<>>]
            /\ cached' = [cached EXCEPT ![h] = <<>>]
       ELSE /\ cached' = [cached EXCEPT ![h] = <<ent[h][1].value>>]
            /\ cache' = [cache EXCEPT ![key[h]] =
                            <<NewEntry(now, ent[h][1].value)>>]
    /\ ent' = [ent EXCEPT ![h] = <<>>]
    /\ setsAtGet' = [setsAtGet EXCEPT ![h] = sets[key[h]]]
    /\ pc' = [pc EXCEPT ![h] = "got"]
    /\ UNCHANGED <<now, ttl, cur, req, key, reg, result, outcome,
                   response, calls, statuses, fetches, sets, lastSet, nreq,
                   issuedAt, wrote>>

\* get_from_cache: the two ifs and the return
GetCheck(h) ==
    /\ cur = h
    /\ pc[h] = "get_check"
    /\ IF ent[h] = <<>>
       THEN /\ cached' = [cached EXCEPT ![h] = <<>>]
            /\ UNCHANGED cache
       ELSE IF Expired(now, ent[h][1].ts, ttl)
       THEN /\ cache' = [cache EXCEPT ![key[h]] = <<>>]
            /\ cached' = [cached EXCEPT ![h] = <<>>]
       ELSE /\ cached' = [cached EXCEPT ![h] = <<ent[h][1].value>>]
            /\ UNCHANGED cache
    /\ ent' = [ent EXCEPT ![h] = <<>>]
    /\ setsAtGet' = [setsAtGet EXCEPT ![h] = sets[key[h]]]
    /\ pc' = [pc EXCEPT ![h] = "got"]
    /\ UNCHANGED <<now, ttl, cur, req, key, reg, result, outcome,
                   response, calls, statuses, fetches, sets, lastSet, nreq,
                   issuedAt, wrote>>

\* `if cached: return JSONResponse(content=cached)`
ServedFromCache(c) == c # <<>> /\ Truthy(c[1])

\* variant: a hit stores the cached value again before returning it
AfterGetRestore(h) ==
    /\ cur = h
    /\ pc[h] = "got"
    /\ IF ServedFromCache(cached[h])
       THEN /\ response' = [response EXCEPT ![h] = cached[h]]
            /\ outcome' = [outcome EXCEPT ![h] = "ok"]
            /\ pc' = [pc EXCEPT ![h] = "done"]
            /\ cached' = [cached EXCEPT ![h] = <<>>]
            /\ cache' = [cache EXCEPT ![key[h]] =
                            <<NewEntry(now, cached[h][1])>>]
            /\ lastSet' = [lastSet EXCEPT ![key[h]] =
                              <<[ts |-> now, value |-> cached[h][1],
                                 issued |-> @[1].issued]>>]
            /\ sets' = [sets EXCEPT ![key[h]] = @ + 1]
            /\ wrote' = [wrote EXCEPT ![h] =
                            Append(@, [key |-> key[h], value |-> cached[h][1]])]
            /\ UNCHANGED <<calls, fetches, issuedAt>>
       ELSE /\ pc' = [pc EXCEPT ![h] = "await_" \o FirstCall(req[h].type)]
            /\ calls' = [calls EXCEPT ![h] = <<FirstCall(req[h].type)>>]
            /\ fetches' = [fetches EXCEPT ![key[h]] = @ + 1]
            /\ issuedAt' = [issuedAt EXCEPT ![h] = now]
            /\ UNCHANGED <<response, outcome, cached, cache, lastSet, sets,
                           wrote>>
    /\ cur' = 0
    /\ UNCHANGED <<now, ttl, req, key, ent, reg, result, statuses, nreq,
                   setsAtGet>>

\* back in the endpoint: return the cached value, or go upstream
AfterGet(h) ==
    /\ cur = h
    /\ pc[h] = "got"
    /\ IF ServedFromCache(cached[h])
       THEN /\ response' = [response EXCEPT ![h] = cached[h]]
            /\ outcome' = [outcome EXCEPT ![h] = "ok"]
            /\ pc' = [pc EXCEPT ![h] = "done"]
            /\ cached' = [cached EXCEPT ![h] = <<>>]
            /\ UNCHANGED <<calls, fetches, issuedAt>>
       ELSE /\ pc' = [pc EXCEPT ![h] = "await_" \o FirstCall(req[h].type)]
            /\ calls' = [calls EXCEPT ![h] = <<FirstCall(req[h].type)>>]
            /\ fetches' = [fetches EXCEPT ![key[h]] = @ + 1]
            /\ issuedAt' = [issuedAt EXCEPT ![h] = now]
            /\ UNCHANGED <<response, outcome, cached>>
    /\ cur' = 0
    /\ UNCHANGED <<now, ttl, cache, req, key, ent, reg, result,
                   statuses, sets, lastSet, nreq,
                   setsAtGet, wrote>>

\* variant: the error response is stored under the request's key
FailCaching(h, oc) ==
    /\ pc' = [pc EXCEPT ![h] = "done"]
    /\ outcome' = [outcome EXCEPT ![h] = oc]
    /\ cur' = 0
    /\ cached' = [cached EXCEPT ![h] = <<>>]
    /\ reg' = [reg EXCEPT ![h] = <<>>]
    /\ cache' = [cache EXCEPT ![key[h]] =
                    <<NewEntry(now, [t |-> "dict", detail |-> oc])>>]
    /\ UNCHANGED <<sets, lastSet, result, calls, response>>

\* variant: the error path leaves the event loop to the failed coroutine
FailHoldingLoop(h, oc) ==
    /\ pc' = [pc EXCEPT ![h] = "done"]
    /\ outcome' = [outcome EXCEPT ![h] = oc]
    /\ cur' = h
    /\ cached' = [cached EXCEPT ![h] = <<>>]
    /\ reg' = [reg EXCEPT ![h] = <<>>]
    /\ UNCHANGED <<cache, sets, lastSet, result, calls, response>>

\* The request ends with an error response; nothing is stored.
\* (The locals of a coroutine are gone once it has returned or raised.)
Fail(h, oc) ==
    /\ pc' = [pc EXCEPT ![h] = "done"]
    /\ outcome' = [outcome EXCEPT ![h] = oc]
    /\ cur' = 0
    /\ cached' = [cached EXCEPT ![h] = <<>>]
    /\ reg' = [reg EXCEPT ![h] = <<>>]
    /\ UNCHANGED <<cache, sets, lastSet, result, calls, response>>

\* The value to return is built; the coroutine goes on to set_cache.
Shaped(h, val) ==
    /\ result' = [result EXCEPT ![h] = <<val>>]
    /\ pc' = [pc EXCEPT ![h] = "set"]
    /\ cur' = h
    /\ UNCHANGED <<cache, sets, lastSet, reg, cached, calls, outcome, response>>

\* get_package: `reg = await fetch_registry(package_name)` completes
RegistryReturns(h, s, p) ==
    /\ cur = 0
    /\ pc[h] = "await_registry"
    /\ statuses' = [statuses EXCEPT ![h] = Append(@, s)]
    /\ CASE FetchRegistry(s) = "http404" -> Fail(h, "http404")
         [] FetchRegistry(s) = "raise"   -> Fail(h, "error500")
         [] FetchRegistry(s) = "json"    ->
              /\ reg' = [reg EXCEPT ![h] = <<p>>]
              /\ pc' = [pc EXCEPT ![h] = "await_downloads"]
              /\ calls' = [calls EXCEPT ![h] = Append(@, "downloads")]
              /\ cur' = 0
              /\ UNCHANGED <<cache, sets, lastSet, result, cached, outcome,
                             response>>
    /\ UNCHANGED <<now, ttl, req, key, ent, fetches, nreq,
                   setsAtGet, issuedAt, wrote>>

\* get_package: `downloads = await fetch_downloads(package_name)` completes
DownloadsReturns(h, s, p) ==
    /\ cur = 0
    /\ pc[h] = "await_downloads"
    /\ statuses' = [statuses EXCEPT ![h] = Append(@, s)]
    /\ CASE FetchDownloads(s) = "raise" -> Fail(h, "error500")
         [] FetchDownloads(s) = "empty" ->
              Shaped(h, ShapePackage(req[h], reg[h][1], EmptyDict))
         [] FetchDownloads(s) = "json"  ->
              Shaped(h, ShapePackage(req[h], reg[h][1], p))
    /\ UNCHANGED <<now, ttl, req, key, ent, fetches, nreq,
                   setsAtGet, issuedAt, wrote>>

\* get_user_packages: `r = await client.get(url, params=params)` completes
SearchReturns(h, s, p) ==
    /\ cur = 0
    /\ pc[h] = "await_search"
    /\ statuses' = [statuses EXCEPT ![h] = Append(@, s)]
    /\ CASE SearchByMaintainer(s) = "raise"   -> Fail(h, "error500")
         [] SearchByMaintainer(s) = "http502" -> Fail(h, "http502")
         [] SearchByMaintainer(s) = "json"    -> Shaped(h, ShapeUser(req[h], p))
    /\ UNCHANGED <<now, ttl, req, key, ent, fetches, nreq,
                   setsAtGet, issuedAt, wrote>>

\* package_downloads_chart: `r = await client.get(url)` completes
RangeReturns(h, s, p) ==
    /\ cur = 0
    /\ pc[h] = "await_range"
    /\ statuses' = [statuses EXCEPT ![h] = Append(@, s)]
    /\ CASE FetchRange(s) = "raise"   -> Fail(h, "error500")
         [] FetchRange(s) = "http404" -> Fail(h, "http404")
         [] FetchRange(s) = "json"    -> Shaped(h, ShapeChart(p))
    /\ UNCHANGED <<now, ttl, req, key, ent, fetches, nreq,
                   setsAtGet, issuedAt, wrote>>

\* variant: _cache.setdefault(key, ...), an existing entry is kept
SetCacheIfAbsent(h) ==
    /\ cur = h
    /\ pc[h] = "set"
    /\ cache' = [cache EXCEPT ![key[h]] =
                    IF @ = <<>> THEN <<NewEntry(now, result[h][1])>> ELSE @]
    /\ lastSet' = [lastSet EXCEPT ![key[h]] =
                      <<[ts |-> now, value |-> result[h][1],
                         issued |-> issuedAt[h]]>>]
    /\ wrote' = [wrote EXCEPT ![h] =
                    Append(@, [key |-> key[h], value |-> result[h][1]])]
    /\ sets' = [sets EXCEPT ![key[h]] = @ + 1]
    /\ response' = [response EXCEPT ![h] = result[h]]
    /\ outcome' = [outcome EXCEPT ![h] = "ok"]
    /\ pc' = [pc EXCEPT ![h] = "done"]
    /\ cur' = 0
    /\ cached' = [cached EXCEPT ![h] = <<>>]
    /\ reg' = [reg EXCEPT ![h] = <<>>]
    /\ result' = [result EXCEPT ![h] = <<>>]
    /\ UNCHANGED <<now, ttl, req, key, ent, calls, statuses, fetches, nreq,
                   setsAtGet, issuedAt>>

\* set_cache(key, result) and `return JSONResponse(content=result)`
SetCache(h) ==
    /\ cur = h
    /\ pc[h] = "set"
    /\ cache' = [cache EXCEPT ![key[h]] = <<NewEntry(now, result[h][1])>>]
    /\ lastSet' = [lastSet EXCEPT ![key[h]] =
                      <<[ts |-> now, value |-> result[h][1],
                         issued |-> issuedAt[h]]>>]
    /\ wrote' = [wrote EXCEPT ![h] =
                    Append(@, [key |-> key[h], value |-> result[h][1]])]
    /\ sets' = [sets EXCEPT ![key[h]] = @ + 1]
    /\ response' = [response EXCEPT ![h] = result[h]]
    /\ outcome' = [outcome EXCEPT ![h] = "ok"]
    /\ pc' = [pc EXCEPT ![h] = "done"]
    /\ cur' = 0
    /\ cached' = [cached EXCEPT ![h] = <<>>]
    /\ reg' = [reg EXCEPT ![h] = <<>>]
    /\ result' = [result EXCEPT ![h] = <<>>]
    /\ UNCHANGED <<now, ttl, req, key, ent, calls, statuses, fetches, nreq,
                   setsAtGet, issuedAt>>

\* The clock advances.
Tick ==
    /\ now < MaxTime
    /\ now' = now + 1
    /\ UNCHANGED <<ttl, cache, cur, pc, req, key, ent, cached, reg, result,
                   outcome, response, calls, statuses, fetches, sets,
                   lastSet, nreq,
                   setsAtGet, issuedAt, wrote>>

Next ==
    \/ \E h \in Handlers, r \in Requests : Begin(h, r)
    \/ \E h \in Handlers : GetLookup(h)
    \/ \E h \in Handlers : GetCheck(h)
    \/ \E h \in Handlers : AfterGet(h)
    \/ \E h \in Handlers, s \in Statuses, p \in RegPayloads :
          RegistryReturns(h, s, p)
    \/ \E h \in Handlers, s \in Statuses, p \in DlPayloads :
          DownloadsReturns(h, s, p)
    \/ \E h \in Handlers, s \in Statuses, p \in SearchPayloads :
          SearchReturns(h, s, p)
    \/ \E h \in Handlers, s \in Statuses, p \in RangePayloads :
          RangeReturns(h, s, p)
    \/ \E h \in Handlers : SetCache(h)
    \/ Tick

Spec == Init /\ [][Next]_vars

\* Termination does not depend on what the upstream documents contain:
\* the fair specification takes one request of each endpoint and one
\* document per upstream call, with every status.
LiveRequests ==
    {[type |-> "pkg", package_name |-> "a", include_versions |-> TRUE,
      include_readme |-> FALSE],
     [type |-> "user", username |-> "u", size |-> 10, from_ |-> 0],
     [type |-> "chart", package |-> "a", range_ |-> "b:c"]}

LiveReg ==
    [name |-> <<"a">>, latest |-> <<1>>, versions |-> UpstreamKeys(3),
     readme |-> <<"doc">>]

LiveDl == [empty |-> FALSE, downloads |-> <<5>>]

LiveSearch ==
    [total |-> <<1>>, objects |-> <<[name |-> <<"p">>, version |-> <<"1.0">>]>>]

LiveRange == [downloads |-> <<>>]

\* every step of handler h after its request has arrived
Step(h) ==
    \/ GetLookup(h)
    \/ GetCheck(h)
    \/ AfterGet(h)
    \/ \E s \in Statuses : RegistryReturns(h, s, LiveReg)
    \/ \E s \in Statuses : DownloadsReturns(h, s, LiveDl)
    \/ \E s \in Statuses : SearchReturns(h, s, LiveSearch)
    \/ \E s \in Statuses : RangeReturns(h, s, LiveRange)
    \/ SetCache(h)

LiveNext ==
    \/ \E h \in Handlers, r \in LiveRequests : Begin(h, r)
    \/ \E h \in Handlers : Step(h)
    \/ Tick

\* The event loop runs every coroutine that is ready, and every upstream
\* call comes back: with a response, an error or its timeout (timeout=10,
\* timeout=8 on the httpx clients).
FairSpec ==
    Init /\ [][LiveNext]_vars /\ \A h \in Handlers : WF_vars(Step(h))

TypeOK ==
    /\ now \in 0..MaxTime
    /\ cur \in {0} \cup Handlers
    /\ \A h \in Handlers :
          pc[h] \in {"idle", "get_lookup", "get_check", "got",
                     "await_registry", "await_downloads", "await_search",
                     "await_range", "set", "done"}

----------------------------------------------------------------------------
(* Properties *)

Awaiting == {"await_registry", "await_downloads", "await_search", "await_range"}

Errors == {"http404", "http502", "error500"}

Min(a, b) == IF a < b THEN a ELSE b

\* C1 (TTL correctness): a get_from_cache on key k at time t returns the
\* value of the last set_cache on k, made at time T, exactly when
\* t - T <= CACHE_TTL; it returns None when t - T > CACHE_TTL and when k
\* was never set.
TTLCorrectness ==
    [][\A h \in Handlers :
          (pc[h] = "get_check" /\ pc'[h] = "got") =>
             LET ls == lastSet[key[h]]
             IN  IF ls # <<>> /\ now - ls[1].ts <= ttl
                 THEN cached'[h] = <<ls[1].value>>
                 ELSE cached'[h] = <<>>]_vars

\* a get at exactly T + CACHE_TTL (CACHE_TTL > 0) has returned the value
TTLBoundaryHit ==
    \E h \in Handlers :
       /\ pc[h] = "got"
       /\ cached[h] # <<>>
       /\ ttl > 0
       /\ lastSet[key[h]] # <<>>
       /\ now - lastSet[key[h]][1].ts = ttl
       /\ cached[h][1] = lastSet[key[h]][1].value

\* C2 (idempotence within the TTL window): a request goes upstream only
\* when get_from_cache returned None for its key; whenever the store holds
\* a live value for the key the request is answered from it and no upstream
\* call is issued, also when that value is an empty downloads sequence.
IdempotentWithinTTL ==
    \A h \in Handlers : calls[h] # <<>> /\ pc[h] \in Awaiting => cached[h] = <<>>

\* C3 (partial-failure tolerance): a package-info request whose registry
\* fetch succeeded ends successfully, with downloads_last_week null when
\* the weekly-downloads call did not succeed.
PartialFailureTolerance ==
    \A h \in Handlers :
       (/\ pc[h] = "done"
        /\ req[h].type = "pkg"
        /\ Len(statuses[h]) = 2
        /\ statuses[h][1] = 200)
       => /\ outcome[h] = "ok"
          /\ statuses[h][2] # 200 => response[h][1].downloads_last_week = <<>>

\* C4 (not-found propagation): when the registry answers 404 the
\* package-info request ends not-found, having issued the registry call
\* only, and the store is left untouched; unless another handler has set
\* the key since this request looked it up, the key has no entry, so the
\* next identical request misses.
NotFoundPropagation ==
    [][\A h \in Handlers :
          (pc[h] = "await_registry" /\ statuses'[h] = <<404>>) =>
             /\ pc'[h] = "done"
             /\ outcome'[h] = "http404"
             /\ calls'[h] = <<"registry">>
             /\ cache' = cache
             /\ sets' = sets
             /\ sets[key[h]] = setsAtGet[h] => cache'[key[h]] = <<>>]_vars

\* a request for a key that already ended not-found once is at the
\* registry again
NotFoundRefetched ==
    \E h, g \in Handlers :
       /\ h # g
       /\ pc[h] = "done" /\ outcome[h] = "http404" /\ req[h].type = "pkg"
       /\ key[g] = key[h]
       /\ pc[g] = "await_registry"
       /\ fetches[key[h]] = 2
       /\ cache[key[h]] = <<>>

\* C5 (no error is ever cached): an entry appears in the store only by the
\* set_cache of a request that ends successfully after its required
\* upstream call succeeded, and holds the response of that request; a
\* request ending in an error changes no entry.
NoErrorCached ==
    [][/\ \A k \in Keys :
            (cache'[k] # cache[k] /\ cache'[k] # <<>>) =>
               \E h \in Handlers :
                  /\ key[h] = k
                  /\ pc[h] = "set"
                  /\ outcome'[h] = "ok"
                  /\ statuses[h] # <<>>
                  /\ statuses[h][1] = 200
                  /\ cache'[k] = <<NewEntry(now, response'[h][1])>>
       /\ \A h \in Handlers :
            (outcome[h] = "none" /\ outcome'[h] \in Errors) =>
               cache' = cache /\ sets' = sets]_vars

\* a request has failed while the store holds an entry for another key
ErrorNotStored ==
    \E h \in Handlers :
       /\ pc[h] = "done"
       /\ outcome[h] \in Errors
       /\ cache[key[h]] = <<>>
       /\ \E k \in Keys : cache[k] # <<>>

\* C6 (key sensitivity): requests that differ in type or in a parameter
\* have different cache keys.
KeySensitivity ==
    \A h, g \in Handlers :
       (req[h] # NoRequest /\ req[g] # NoRequest /\ req[h] # req[g])
       => key[h] # key[g]

\* C7 (upstream failures are 502 on the search and chart paths): a
\* user-packages request ends 502 on any non-200 answer or failed call, a
\* chart request ends 404 on an upstream 404 and 502 on any other non-2xx
\* answer or failed call.
UpstreamFailureIs502 ==
    \A h \in Handlers :
       (pc[h] = "done" /\ statuses[h] # <<>>) =>
          LET s == statuses[h][1]
          IN  /\ (req[h].type = "user" /\ s # 200) => outcome[h] = "http502"
              /\ (req[h].type = "chart" /\ s = 404) => outcome[h] = "http404"
              /\ (req[h].type = "chart" /\ s # 404 /\ s \notin 200..299)
                    => outcome[h] = "http502"

\* C8 (cache operations are atomic): a handler that is inside
\* get_from_cache or about to run set_cache holds the event loop, so no
\* other handler runs and nothing is awaited until the operation is over;
\* the entry get_from_cache tests and removes is the entry it looked up.
CacheOpsAtomic ==
    \A h \in Handlers :
       /\ pc[h] \in {"get_lookup", "get_check", "set"} => cur = h
       /\ pc[h] = "get_check" => ent[h] = cache[key[h]]

\* a handler is between the lookup and the expiry test while another
\* handler for the same key is suspended on its upstream call
GetDuringOtherFetch ==
    \E h, g \in Handlers :
       /\ h # g
       /\ pc[h] = "get_check"
       /\ pc[g] \in Awaiting
       /\ key[g] = key[h]

\* C9 (truncation rule): with include_versions the returned versions list
\* is the last min(20, n) keys of the upstream versions mapping in upstream
\* order; without it the response has no versions field.
TruncationRule ==
    [][\A h \in Handlers :
          (pc[h] = "set" /\ pc'[h] = "done" /\ req[h].type = "pkg") =>
             LET vs  == reg[h][1].versions
                 n   == Len(vs)
                 out == response'[h][1].versions
             IN  IF req[h].include_versions
                 THEN /\ out # <<>>
                      /\ Len(out[1]) = Min(VERSIONS_KEPT, n)
                      /\ \A i \in 1..Len(out[1]) :
                            out[1][i] = vs[n - Len(out[1]) + i]
                 ELSE out = <<>>]_vars

\* a response built from VERSIONS_KEPT + 1 upstream versions lists all but
\* the first of them
TruncatedToTail ==
    \E h \in Handlers :
       /\ pc[h] = "done" /\ outcome[h] = "ok" /\ req[h].type = "pkg"
       /\ response[h][1].versions =
             <<SubSeq(UpstreamKeys(VERSIONS_KEPT + 1), 2, VERSIONS_KEPT + 1)>>

\* C10 (weekly-downloads 404 is success with no data): when the registry
\* fetch succeeded and the weekly-downloads endpoint answers 404, the
\* request goes on to set_cache with downloads_last_week null, ends
\* successfully, and its response is the value stored under its key.
Downloads404IsNoData ==
    [][\A h \in Handlers :
          (req[h].type = "pkg" /\ Len(statuses'[h]) = 2
             /\ statuses'[h][2] = 404) =>
             /\ pc[h] = "await_downloads" =>
                   /\ pc'[h] = "set"
                   /\ result'[h][1].downloads_last_week = <<>>
             /\ (pc[h] = "set" /\ pc'[h] # "set") =>
                   /\ pc'[h] = "done"
                   /\ outcome'[h] = "ok"
                   /\ response'[h][1].downloads_last_week = <<>>
                   /\ cache'[key[h]] = <<NewEntry(now, response'[h][1])>>]_vars

\* a package-info response built after a weekly-downloads 404 is in the store
NoDataStored ==
    \E h \in Handlers :
       /\ pc[h] = "done" /\ outcome[h] = "ok"
       /\ statuses[h] = <<200, 404>>
       /\ cache[key[h]] # <<>>
       /\ cache[key[h]][1].value = response[h][1]
       /\ response[h][1].downloads_last_week = <<>>

\* C11 (set replaces): set_cache(key, value) makes the entry of key
\* {value, ts: now}, whatever entry the key had, and changes no other key;
\* a get_from_cache on the key at that moment finds the entry live.
SetReplaces ==
    [][\A h \in Handlers :
          (pc[h] = "set" /\ pc'[h] = "done") =>
             /\ cache' = [cache EXCEPT ![key[h]] =
                             <<[ts |-> now, value |-> result[h][1]]>>]
             /\ now - cache'[key[h]][1].ts <= ttl]_vars

\* the second set_cache on a key has replaced the entry of the first
SetOverwrote ==
    \E h \in Handlers :
       /\ pc[h] = "done"
       /\ wrote[h] # <<>>
       /\ sets[key[h]] = 2
       /\ cache[key[h]] = <<[ts |-> now, value |-> wrote[h][1].value]>>

\* C12 (lazy expiry, read-only entries): a get_from_cache that finds a live
\* entry, or none, leaves the store as it is; one that finds an expired
\* entry removes that entry only and returns None; an entry disappears only
\* in this way, and changes only by a set_cache on its key.
LazyExpiry ==
    [][/\ \A h \in Handlers :
            (pc[h] = "get_check" /\ pc'[h] = "got") =>
               LET e == cache[key[h]]
               IN  IF e # <<>> /\ now - e[1].ts > ttl
                   THEN /\ cache' = [cache EXCEPT ![key[h]] = <<>>]
                        /\ cached'[h] = <<>>
                   ELSE cache' = cache
       /\ \A k \in Keys :
            (cache[k] # <<>> /\ cache'[k] = <<>>) =>
               \E h \in Handlers :
                  /\ key[h] = k
                  /\ pc[h] = "get_check" /\ pc'[h] = "got"
                  /\ now - cache[k][1].ts > ttl
       /\ \A k \in Keys :
            (cache[k] # <<>> /\ cache'[k] # <<>> /\ cache'[k] # cache[k]) =>
               \E h \in Handlers :
                  key[h] = k /\ pc[h] = "set" /\ pc'[h] = "done"]_vars

\* a get_from_cache has found the entry of its key expired and removed it
ExpiredRemovedOnRead ==
    \E h \in Handlers :
       /\ pc[h] = "got"
       /\ cached[h] = <<>>
       /\ lastSet[key[h]] # <<>>
       /\ now - lastSet[key[h]][1].ts > ttl
       /\ cache[key[h]] = <<>>

\* C13 (ordering within a package-info aggregation): the weekly-downloads
\* call is issued only after the registry call has come back with success;
\* a value is shaped, stored or returned after a miss only when both calls
\* have come back; while a call is pending the request has stored and
\* returned nothing.
OrderedAggregation ==
    \A h \in Handlers :
       req[h].type = "pkg" =>
          /\ InSeq("downloads", calls[h]) =>
                /\ calls[h] = <<"registry", "downloads">>
                /\ statuses[h] # <<>>
                /\ statuses[h][1] = 200
          /\ (\/ result[h] # <<>>
              \/ wrote[h] # <<>>
              \/ (pc[h] = "done" /\ outcome[h] = "ok" /\ calls[h] # <<>>))
                => Len(statuses[h]) = 2
          /\ pc[h] \in {"await_registry", "await_downloads"} =>
                /\ wrote[h] = <<>>
                /\ result[h] = <<>>
                /\ response[h] = <<>>
                /\ outcome[h] = "none"

\* a package-info request has stored its response after both calls
StoredAfterBoth ==
    \E h \in Handlers :
       /\ req[h].type = "pkg"
       /\ pc[h] = "done"
       /\ wrote[h] # <<>>
       /\ calls[h] = <<"registry", "downloads">>
       /\ Len(statuses[h]) = 2

\* C14 (every request handler terminates): when every upstream call comes
\* back, every request that has arrived ends with a response or an error,
\* whatever the other handlers do.
Termination ==
    \A h \in Handlers : (pc[h] \notin {"idle", "done"}) ~> (pc[h] = "done")

\* every handler has gone upstream and ended its request
AllEnded ==
    \A h \in Handlers : pc[h] = "done" /\ calls[h] # <<>>

\* C15 (latest-version defaults): a registry document is accepted whatever
\* its dist-tags; the response carries the document's latest (null when it
\* has none), and when there is no latest or no manifest under it,
\* latest_meta is the projection of the empty manifest.
LatestDefaults ==
    [][\A h \in Handlers :
          /\ (pc[h] = "await_registry" /\ statuses'[h] = <<200>>) =>
                pc'[h] = "await_downloads"
          /\ (pc[h] = "set" /\ pc'[h] = "done" /\ req[h].type = "pkg") =>
                LET rg  == reg[h][1]
                    out == response'[h][1]
                IN  /\ outcome'[h] = "ok"
                    /\ out.latest = rg.latest
                    /\ (rg.latest = <<>> \/ ~InSeq(rg.latest[1], rg.versions))
                          => out.latest_meta =
                                [version |-> <<>>, license |-> <<>>,
                                 dependencies |-> {}, dist |-> {}]]_vars

\* a response built from a document whose latest has no manifest
LatestWithoutManifest ==
    \E h \in Handlers :
       /\ pc[h] = "done" /\ outcome[h] = "ok" /\ req[h].type = "pkg"
       /\ response[h][1].latest = <<MaxVersions + 1>>
       /\ response[h][1].latest_meta.version = <<>>
       /\ response[h][1].latest_meta.dist = {}

\* C16 (bounded staleness against upstream, as claimed): a response served
\* from the cache was built from upstream data requested no more than
\* CACHE_TTL before the lookup that serves it.
BoundedStaleness ==
    [][\A h \in Handlers :
          (pc[h] = "get_check" /\ pc'[h] = "got"
             /\ ServedFromCache(cached'[h])) =>
             now - lastSet[key[h]][1].issued <= ttl]_vars

\* C16 (amended): a response served from the cache was stored by set_cache
\* no more than CACHE_TTL before the lookup that serves it, and its
\* upstream data was requested before it was stored.
StalenessFromStore ==
    [][\A h \in Handlers :
          (pc[h] = "get_check" /\ pc'[h] = "got"
             /\ ServedFromCache(cached'[h])) =>
             LET ls == lastSet[key[h]][1]
             IN  /\ cached'[h][1] = ls.value
                 /\ now - ls.ts <= ttl
                 /\ ls.issued <= ls.ts]_vars

\* a value is served within CACHE_TTL of its store although its data was
\* requested more than CACHE_TTL ago
ServedOlderThanTTL ==
    \E h \in Handlers :
       /\ pc[h] = "got"
       /\ ServedFromCache(cached[h])
       /\ lastSet[key[h]] # <<>>
       /\ cached[h][1] = lastSet[key[h]][1].value
       /\ now - lastSet[key[h]][1].ts <= ttl
       /\ now - lastSet[key[h]][1].issued > ttl

\* C17 (no coalescing, last writer wins): the entry of a key, while there
\* is one, is the value and timestamp of the last set_cache on that key;
\* handlers that missed on the same key have each gone upstream, and when
\* both have stored there were two upstream requests and two stores.
LastWriterWins ==
    /\ \A k \in Keys :
          cache[k] # <<>> =>
             /\ lastSet[k] # <<>>
             /\ cache[k] = <<[ts |-> lastSet[k][1].ts,
                              value |-> lastSet[k][1].value]>>
    /\ \A h \in Handlers : pc[h] \in Awaiting \cup {"set"} => calls[h] # <<>>
    /\ \A h, g \in Handlers :
          (h # g /\ key[h] = key[g] /\ wrote[h] # <<>> /\ wrote[g] # <<>>) =>
             /\ fetches[key[h]] >= 2
             /\ sets[key[h]] >= 2

\* two handlers missed on one key; the one whose fetch was issued first
\* stored last, and the entry is its response
FirstIssuedStoredLast ==
    \E h, g \in Handlers :
       /\ h # g
       /\ key[h] = key[g]
       /\ pc[h] = "done" /\ pc[g] = "done"
       /\ wrote[h] # <<>> /\ wrote[g] # <<>>
       /\ issuedAt[h] < issuedAt[g]
       /\ response[h] # response[g]
       /\ cache[key[h]] # <<>>
       /\ cache[key[h]][1].value = response[h][1]

\* C18 (one write, own key only): a request makes at most one set_cache,
\* on the key built from its own parameters; a request served from the
\* cache makes none; a request that succeeds after a miss has made exactly
\* one, storing the value it returns.
OneWriteOwnKey ==
    \A h \in Handlers :
       /\ Len(wrote[h]) <= 1
       /\ wrote[h] # <<>> => wrote[h][1].key = Key(req[h])
       /\ (pc[h] = "done" /\ outcome[h] = "ok" /\ calls[h] = <<>>) =>
             wrote[h] = <<>>
       /\ (pc[h] = "done" /\ outcome[h] = "ok" /\ calls[h] # <<>>) =>
             /\ Len(wrote[h]) = 1
             /\ wrote[h][1].value = response[h][1]
       /\ (pc[h] = "done" /\ outcome[h] \in Errors) => wrote[h] = <<>>

\* one request stored its response and another was served it from the cache
StoredOnceServedOnce ==
    \E h, g \in Handlers :
       /\ h # g
       /\ key[h] = key[g]
       /\ pc[h] = "done" /\ outcome[h] = "ok" /\ calls[h] = <<>>
       /\ wrote[h] = <<>>
       /\ pc[g] = "done" /\ Len(wrote[g]) = 1
       /\ response[h] = response[g]

====
